---- MODULE Spec2Model ----
(***************************************************************************)
(* The Post model of ghosler (utils/models/post.js): open tracking by      *)
(* Post.updateStats, Post.make, Post.save and Post.update, and the         *)
(* collaborators they call (Miscellaneous.decode, Files.get, Files.create, *)
(* BitSet, Stats).                                                         *)
(*                                                                         *)
(* Strings are sequences of one-character strings.  Every invocation of    *)
(* updateStats is an async function: it runs atomically up to each await   *)
(* and other invocations may run between its awaits.                       *)
(***************************************************************************)
EXTENDS Integers, Sequences, FiniteSets, TLC

\* ------------------------------------------------------------------ bounds
MaxCalls == 2       \* invocations of updateStats in one behaviour
MaxIndex == 1       \* highest recipient index a minted token carries
MaxSent == 2        \* highest emailsSent of a persisted post
MaxAuthors == 2     \* longest authors list of a publish payload

Calls == 1..MaxCalls

\* ------------------------------------------------------- string primitives
Delim == "_"
DigitChars == <<"0", "1", "2", "3", "4", "5", "6", "7", "8", "9">>
IsDigit(c) == \E k \in 1..Len(DigitChars) : DigitChars[k] = c
DigitVal(c) == (CHOOSE k \in 1..Len(DigitChars) : DigitChars[k] = c) - 1

RECURSIVE Reverse(_)
Reverse(s) == IF s = <<>> THEN <<>> ELSE Append(Reverse(Tail(s)), Head(s))

\* `${n}`: the decimal text of a non-negative integer
RECURSIVE ToDigits(_)
ToDigits(n) ==
    IF n < 10 THEN <<DigitChars[n + 1]>>
    ELSE Append(ToDigits(n \div 10), DigitChars[(n % 10) + 1])

\* String.prototype.split('_'): every component, the empty ones included
RECURSIVE Split(_)
Split(s) ==
    IF \A k \in 1..Len(s) : s[k] # Delim THEN <<s>>
    ELSE LET k == CHOOSE j \in 1..Len(s) :
                      s[j] = Delim /\ \A h \in 1..(j - 1) : s[h] # Delim
         IN  <<SubSeq(s, 1, k - 1)>> \o Split(SubSeq(s, k + 1, Len(s)))

\* A JavaScript number that is either NaN (<<>>) or an integer n (<<n>>)
NaN == <<>>
Num(n) == <<n>>

RECURSIVE DigitsValue(_)
DigitsValue(s) ==
    IF s = <<>> THEN 0 ELSE 10 * DigitsValue(SubSeq(s, 1, Len(s) - 1)) + DigitVal(s[Len(s)])

\* The longest prefix of s made of decimal digits
RECURSIVE DigitPrefix(_)
DigitPrefix(s) ==
    IF s = <<>> \/ ~IsDigit(Head(s)) THEN <<>> ELSE <<Head(s)>> \o DigitPrefix(Tail(s))

\* parseInt(x) for x undefined (<<>>) or a string (<<s>>); the strings of
\* this model hold no white space, sign or radix prefix
ParseInt(x) ==
    IF x = <<>> THEN NaN
    ELSE IF DigitPrefix(x[1]) = <<>> THEN NaN
    ELSE Num(DigitsValue(DigitPrefix(x[1])))

\* ----------------------------------------------------------- token codec
\* Miscellaneous.encode / Miscellaneous.decode: a reversible transform of
\* the payload string; decode fails on a string that encode never produces
Marker == "~"
Encode(s) == <<Marker>> \o Reverse(s)
DecodeOk(t) == t # <<>> /\ Head(t) = Marker
Decode(t) == Reverse(Tail(t))

\* The payload the newsletter embeds for recipient index n of post id
Mint(id, n) == id \o <<Delim>> \o ToDigits(n)
TokenFor(id, n) == Encode(Mint(id, n))

\* ---------------------------------------------------------------- BitSet
\* The bit set is a set of naturals; its serialized form packs WordBits bits
\* into one character, most significant character first.
WordBits == 2
RECURSIVE Pow2(_)
Pow2(n) == IF n = 0 THEN 1 ELSE 2 * Pow2(n - 1)
WordBase == Pow2(WordBits)

RECURSIVE BitsValue(_)
BitsValue(bits) ==
    IF bits = {} THEN 0
    ELSE LET b == CHOOSE x \in bits : TRUE IN Pow2(b) + BitsValue(bits \ {b})

RECURSIVE ToBase(_)
ToBase(v) ==
    IF v < WordBase THEN <<DigitChars[v + 1]>>
    ELSE Append(ToBase(v \div WordBase), DigitChars[(v % WordBase) + 1])

RECURSIVE FromBase(_)
FromBase(s) ==
    IF s = <<>> THEN 0
    ELSE WordBase * FromBase(SubSeq(s, 1, Len(s) - 1)) + DigitVal(s[Len(s)])

\* new BitSet(string)
BitSetOf(s) == {b \in 0..(WordBits * Len(s)) : (FromBase(s) \div Pow2(b)) % 2 = 1}
\* bitSet.toString()
BitSetToString(bits) == ToBase(BitsValue(bits))
\* bitSet.get(n) and bitSet.set(n, 1); ix is the bit a number addresses
BitGet(bits, ix) == IF ix # <<>> /\ ix[1] \in bits THEN 1 ELSE 0
BitSet1(bits, ix) == IF ix = <<>> THEN bits ELSE bits \cup {ix[1]}
\* A NaN index is outside BitSet's contract: an implementation coerces it
\* to bit 0 (NaN | 0) or addresses no bit with it
NaNModes == {"zero", "none"}
BitAddr(num, mode) == IF num = NaN THEN (IF mode = "zero" THEN Num(0) ELSE <<>>) ELSE num
PopCount(s) == Cardinality(BitSetOf(s))

\* ------------------------------------------------------------- Post.make
\* A value that may be null or undefined is <<>> (absent) or <<v>>
Null == <<>>
Some(v) == <<v>>

\* a || b: the right operand also when the left one is the empty string
CoalesceOr(a, b) == IF a = Null \/ a = Some(<<>>) THEN b ELSE a

\* a ?? b: the right operand when the left one is null or undefined
Coalesce(a, b) == IF a = Null THEN b ELSE a

\* s.substring(0, n)
Min(a, b) == IF a <= b THEN a ELSE b
Substring0(s, n) == SubSeq(s, 1, Min(n, Len(s)))
ExcerptLen == 75

\* Authors compared by display name
SameAuthorByName(a, primary) == a.name = primary.name

\* !(author.id !== post.primary_author.id)
SameAuthor(a, primary) == a.id = primary.id

\* authors.filter(author => author.id !== primary.id)
RECURSIVE Filter(_, _)
Filter(authors, primary) ==
    IF authors = <<>> THEN <<>>
    ELSE IF SameAuthor(Head(authors), primary) THEN Filter(Tail(authors), primary)
    ELSE <<Head(authors)>> \o Filter(Tail(authors), primary)

\* .map(author => author.name)
Names(authors) == [k \in 1..Len(authors) |-> authors[k].name]

\* .join(', ')
Separator == <<",", " ">>
RECURSIVE Join(_)
Join(names) ==
    IF names = <<>> THEN <<>>
    ELSE IF Len(names) = 1 THEN names[1]
    ELSE names[1] \o Separator \o Join(Tail(names))

\* Miscellaneous.formatDate: the display form of a timestamp
FormatDate(at) == [k \in 1..Len(at) |-> IF k = 1 THEN "d" ELSE at[k]]

\* new Stats()
NewStats == [emailsSent |-> 0, emailsOpened |-> <<>>]

\* Post.make(payload), with payload.post.current as its argument
Make(current) ==
    [id |-> current.id,
     url |-> current.url,
     date |-> FormatDate(current.published_at),
     title |-> current.title,
     content |-> current.html,
     excerpt |-> Coalesce(current.custom_excerpt,
                          Coalesce(current.excerpt,
                                   Some(Substring0(current.plaintext, ExcerptLen)))),
     featureImage |-> current.feature_image,
     featureImageCaption |-> current.feature_image_caption,
     primaryAuthor |-> current.primary_author.name,
     authors |-> Join(Names(Filter(current.authors, current.primary_author))),
     stats |-> NewStats]

\* ----------------------------------------------------------------- store
\* DelimId is a post id that contains the delimiter
MainId == <<"a">>
OtherId == <<"b">>
DelimId == <<"a", "_", "1">>
PostIds == {MainId, OtherId, DelimId}
Absent == [absent |-> TRUE]

\* The publish payload of the post with this id and title
Alice == <<"A", "l", "i", "c", "e">>
Bob == <<"B", "o", "b">>
Writer == [id |-> <<"w", "1">>, name |-> <<"w">>]
PayloadFor(id, title) ==
    [id |-> id, url |-> <<"u">> \o id, published_at |-> <<"p">>, title |-> title,
     html |-> <<"h">>, custom_excerpt |-> Null, excerpt |-> Some(<<"e">>),
     plaintext |-> <<"h">>, feature_image |-> <<"f">>, feature_image_caption |-> Null,
     primary_author |-> Writer,
     authors |-> <<Writer, [id |-> <<"a", "2">>, name |-> Bob]>>]

\* Every field of the in-memory Post is persisted
SaveableWhole(p) == p

\* The persisted projection of a post (Post.#saveable)
SaveableOf(p) ==
    [id |-> p.id, url |-> p.url, date |-> p.date, title |-> p.title,
     author |-> p.primaryAuthor, stats |-> p.stats]

\* The persisted record of the post made from the payload of id, with stats
TitleOf(id) == <<"t">> \o id
Saveable(id, stats) == SaveableOf([Make(PayloadFor(id, TitleOf(id))) EXCEPT !.stats = stats])

\* A post that was saved and then sent to n recipients, none opened yet
Sent(id, n) == Saveable(id, [NewStats EXCEPT !.emailsSent = n])

\* ---------------------------------------------------------------- inputs
MalformedPayloads ==
    { <<"a">>,                          \* no delimiter
      <<"a", "_", "0", "_", "x">>,      \* three components
      <<"a", "_", "x">> }               \* second component not a number
Garbage == <<"x", "x">>
MintedTokens ==
    {TokenFor(id, n) : id \in PostIds \ {DelimId}, n \in 0..MaxIndex} \cup {TokenFor(DelimId, 0)}
Tokens == MintedTokens \cup {Encode(p) : p \in MalformedPayloads} \cup {Garbage}

\* Publish payloads handed to Post.make: every combination of a custom
\* excerpt, an excerpt, a plaintext around ExcerptLen characters, a primary
\* author and a list of at most MaxAuthors authors
Short == <<"s", "h", "o", "r", "t">>
Text(n) == [k \in 1..n |-> DigitChars[(k % 10) + 1]]
Excerpts == {Null, Some(<<>>), Some(Short)}
Plaintexts == {Text(0), Text(1), Text(ExcerptLen), Text(ExcerptLen + 1)}
AuthorIds == {<<"a", "1">>, <<"a", "2">>}
Authors == [id : AuthorIds, name : {Alice, Bob}]
AuthorLists == UNION {[1..n -> Authors] : n \in 0..MaxAuthors}
Payloads ==
    {[PayloadFor(MainId, TitleOf(MainId)) EXCEPT
        !.custom_excerpt = c, !.excerpt = e, !.plaintext = t,
        !.primary_author = w, !.authors = as] :
     c \in Excerpts, e \in Excerpts, t \in Plaintexts, w \in Authors, as \in AuthorLists}
NoPayload == [none |-> TRUE]
NoPost == [none |-> TRUE]
NoResult == [none |-> TRUE]

VARIABLES
    store,      \* Files: post id -> persisted record, or Absent
    pc,         \* where each invocation of updateStats stands
    token,      \* the encryptedUUID each invocation was called with
    post,       \* each invocation's local `post` (the object Files.get returned)
    payload,    \* payload.post.current of the publish webhook, or NoPayload
    mem,        \* the Post object the publish pipeline holds, or NoPost
    result      \* the last save() or update() of that object and what it returned

life == <<payload, mem, result>>
vars == <<store, pc, token, post, payload, mem, result>>

\* How an invocation ends: "rejected" (line 77 or 79 threw), "absent" (the
\* return of line 81), "skipped" (the bit was 1), "persisted" (saved is true),
\* "unsaved" (saved is false); all but "rejected" resolve the promise
Terminal == {"rejected", "absent", "skipped", "persisted", "unsaved"}

\* const [postId, memberIndex] = uuid.split('_'), tabulated over the tokens
\* of the model; memberIndex is undefined (<<>>) or a string (<<s>>)
Destructured ==
    [t \in Tokens |->
        LET parts == Split(Decode(t)) IN
        [postId |-> parts[1],
         memberIndex |-> IF Len(parts) >= 2 THEN <<parts[2]>> ELSE <<>>]]
PostIdOf(t) == Destructured[t].postId
MemberIndexOf(t) == Destructured[t].memberIndex

\* Files.get(postId): the persisted record, or absent
FilesGet(id) == IF id \in DOMAIN store THEN store[id] ELSE Absent
\* Files.create(record, true) that succeeds: the record replaces the one
\* persisted under its id, whole
FilesCreate(record) == [store EXCEPT ![record.id] = record]

\* The posts were saved and sent before any tracking hit arrives: MainId is
\* absent or persisted with any emailsSent, OtherId is absent or persisted
\* with MaxSent, DelimId (the post the DelimId token was minted for) is
\* persisted; no email is opened yet and no invocation is called.
Init ==
    /\ \E n \in 0..MaxSent, ps \in SUBSET {MainId, OtherId} :
         store = [id \in PostIds |->
                    IF id = MainId /\ id \in ps THEN Sent(id, n)
                    ELSE IF id \in ps \cup {DelimId} THEN Sent(id, MaxSent)
                    ELSE Absent]
    /\ pc = [i \in Calls |-> "idle"]
    /\ token = [i \in Calls |-> <<>>]
    /\ post = [i \in Calls |-> Absent]
    /\ payload = NoPayload
    /\ mem = NoPost
    /\ result = NoResult

\* updateStats(encryptedUUID) up to its first await: decode, split, Files.get.
\* Invocations are numbered in the order they are called.  Lines 76-81 hold
\* no try/catch and no test of decode's result, so a failing decode (an
\* exception, or a failure value that has no split) rejects the promise the
\* async function returns: the invocation ends "rejected".
Call(i) ==
    /\ pc[i] = "idle"
    /\ i > 1 => pc[i - 1] # "idle"
    /\ \E t \in Tokens :
        /\ token' = [token EXCEPT ![i] = t]
        /\ pc' = [pc EXCEPT ![i] = IF DecodeOk(t) THEN "get" ELSE "rejected"]
    /\ UNCHANGED <<store, post>>
    /\ UNCHANGED life

\* The record is made up when the store has none (no return at line 81)
LoadedPostOrNew(t) ==
    IF FilesGet(PostIdOf(t)) = Absent THEN Saveable(PostIdOf(t), NewStats)
    ELSE FilesGet(PostIdOf(t))

\* const post = await Files.get(postId)
LoadedPost(t) == FilesGet(PostIdOf(t))

\* The test of line 86 dropped: the bit is set and written whatever it was
UnopenedAlways(bitSet, ix) == TRUE

\* bitSet.get(parseInt(memberIndex)) === 0
Unopened(bitSet, ix) == BitGet(bitSet, ix) = 0

\* Load behind a naive per-post guard: it waits until no other invocation on
\* the same post is between its call and its completion
LoadWaits(i) ==
    /\ pc[i] = "get"
    /\ \A k \in Calls \ {i} :
          pc[k] \in {"get", "create"} => PostIdOf(token[k]) # PostIdOf(token[i])
    /\ LET p == LoadedPost(token[i]) IN
        IF p = Absent
        THEN /\ pc' = [pc EXCEPT ![i] = "absent"]
             /\ UNCHANGED post
        ELSE \E mode \in NaNModes :
             LET bitSet == BitSetOf(p.stats.emailsOpened)
                 ix == BitAddr(ParseInt(MemberIndexOf(token[i])), mode)
             IN  IF Unopened(bitSet, ix)
                 THEN /\ post' = [post EXCEPT ![i] =
                                    [p EXCEPT !.stats.emailsOpened = BitSetToString(BitSet1(bitSet, ix))]]
                      /\ pc' = [pc EXCEPT ![i] = "create"]
                 ELSE /\ pc' = [pc EXCEPT ![i] = "skipped"]
                      /\ UNCHANGED post
    /\ UNCHANGED <<store, token>>
    /\ UNCHANGED life

\* Files.get resolves; the body runs up to `await Files.create(post, true)`
Load(i) ==
    /\ pc[i] = "get"
    /\ LET p == LoadedPost(token[i]) IN
        IF p = Absent
        THEN /\ pc' = [pc EXCEPT ![i] = "absent"]
             /\ UNCHANGED post
        ELSE \E mode \in NaNModes :
             LET bitSet == BitSetOf(p.stats.emailsOpened)
                 ix == BitAddr(ParseInt(MemberIndexOf(token[i])), mode)
             IN  IF Unopened(bitSet, ix)
                 THEN /\ post' = [post EXCEPT ![i] =
                                    [p EXCEPT !.stats.emailsOpened = BitSetToString(BitSet1(bitSet, ix))]]
                      /\ pc' = [pc EXCEPT ![i] = "create"]
                 ELSE /\ pc' = [pc EXCEPT ![i] = "skipped"]
                      /\ UNCHANGED post
    /\ UNCHANGED <<store, token>>
    /\ UNCHANGED life

\* The store keeps the written record only: every other record is lost
CreateOkClobbers(i) ==
    /\ pc[i] = "create"
    /\ store' = [id \in PostIds |-> IF id = post[i].id THEN post[i] ELSE Absent]
    /\ pc' = [pc EXCEPT ![i] = "persisted"]
    /\ post' = [post EXCEPT ![i] = Absent]
    /\ UNCHANGED token
    /\ UNCHANGED life

\* Files.create(post, true) resolves to true: the record is replaced
CreateOk(i) ==
    /\ pc[i] = "create"
    /\ store' = FilesCreate(post[i])
    /\ pc' = [pc EXCEPT ![i] = "persisted"]
    /\ post' = [post EXCEPT ![i] = Absent]
    /\ UNCHANGED token
    /\ UNCHANGED life

\* Files.create(post, true) resolves to false: nothing is written
CreateFail(i) ==
    /\ pc[i] = "create"
    /\ pc' = [pc EXCEPT ![i] = "unsaved"]
    /\ post' = [post EXCEPT ![i] = Absent]
    /\ UNCHANGED <<store, token>>
    /\ UNCHANGED life

Next == \E i \in Calls : Call(i) \/ Load(i) \/ CreateOk(i) \/ CreateFail(i)

Spec == Init /\ [][Next]_vars

\* The caller awaits every updateStats on a post before it issues the next
\* one on that post: invocations on one post run one after another
InFlight(i) == pc[i] \in {"get", "create"}
SeqCall(i) ==
    /\ Call(i)
    /\ \A k \in Calls \ {i} : InFlight(k) => PostIdOf(token[k]) # PostIdOf(token'[i])

NextSeq == \E i \in Calls : SeqCall(i) \/ Load(i) \/ CreateOk(i) \/ CreateFail(i)

SpecSeq == Init /\ [][NextSeq]_vars

\* The promises of Files.get and Files.create settle: an invocation that
\* awaits one of them is resumed at some time
SpecFair ==
    /\ Init
    /\ [][Next]_vars
    /\ \A i \in Calls : WF_vars(Load(i)) /\ WF_vars(CreateOk(i) \/ CreateFail(i))

\* ------------------------------------------------------ publish pipeline
\* Post.make(payload): the webhook's payload becomes the in-memory Post
MakePost ==
    /\ payload # NoPayload
    /\ mem = NoPost
    /\ mem' = Make(payload)
    /\ UNCHANGED <<store, pc, token, post, payload, result>>

\* Post.make on every publish payload: nothing is stored, nothing is tracked
InitMake ==
    /\ store = [id \in PostIds |-> Absent]
    /\ pc = [i \in Calls |-> "idle"]
    /\ token = [i \in Calls |-> <<>>]
    /\ post = [i \in Calls |-> Absent]
    /\ payload \in Payloads
    /\ mem = NoPost
    /\ result = NoResult

NextMake == MakePost

SpecMake == InitMake /\ [][NextMake]_vars

\* Files.create(record) without overwrite refuses nothing
ExistsNever(id) == FALSE

\* Files.create(record) without overwrite: a record with this id is persisted
Exists(id) == FilesGet(id) # Absent

Returned(op, ok) == [op |-> op, ok |-> ok]

\* post.save(): Files.create(this.#saveable()).  The store refuses when a
\* record with this id exists, and otherwise writes the record or fails.
Save ==
    /\ mem # NoPost
    /\ \E ok \in BOOLEAN :
        /\ ok => ~Exists(mem.id)
        /\ store' = IF ok THEN FilesCreate(SaveableOf(mem)) ELSE store
        /\ result' = Returned("save", ok)
    /\ UNCHANGED <<pc, token, post, payload, mem>>

\* post.update(): Files.create(this.#saveable(), true).  The store replaces
\* the record whole, or fails and writes nothing.
Update ==
    /\ mem # NoPost
    /\ \E ok \in BOOLEAN :
        /\ store' = IF ok THEN FilesCreate(SaveableOf(mem)) ELSE store
        /\ result' = Returned("update", ok)
    /\ UNCHANGED <<pc, token, post, payload, mem>>

\* The publish pipeline corrects the title of the Post it holds
Corrected == <<"T">>
SetTitle ==
    /\ mem # NoPost
    /\ mem.title # Corrected
    /\ mem' = [mem EXCEPT !.title = Corrected]
    /\ UNCHANGED <<store, pc, token, post, payload, result>>

\* The publish pipeline records the number of emails it sent, once
SetSent ==
    /\ mem # NoPost
    /\ mem.stats.emailsSent = 0
    /\ mem' = [mem EXCEPT !.stats.emailsSent = MaxSent]
    /\ UNCHANGED <<store, pc, token, post, payload, result>>

\* One post is published: its payload arrives, nothing is stored yet;
\* tracking hits for it arrive while the pipeline holds the Post
InitLife ==
    /\ store = [id \in PostIds |-> Absent]
    /\ pc = [i \in Calls |-> "idle"]
    /\ token = [i \in Calls |-> <<>>]
    /\ post = [i \in Calls |-> Absent]
    /\ payload = PayloadFor(MainId, TitleOf(MainId))
    /\ mem = NoPost
    /\ result = NoResult

NextLife ==
    \/ MakePost
    \/ Save
    \/ Update
    \/ SetTitle
    \/ SetSent
    \/ \E i \in Calls : Call(i) \/ Load(i) \/ CreateOk(i) \/ CreateFail(i)

SpecLife == InitLife /\ [][NextLife]_vars

\* ------------------------------------------------------------ vocabulary
\* The invocation has called Files.create(post, true)
Issued(i) == pc[i] \in {"create", "persisted", "unsaved"}
\* The pair updateStats works with
IndexOf(t) == ParseInt(MemberIndexOf(t))
StoredBits(id) == IF store[id] = Absent THEN {} ELSE BitSetOf(store[id].stats.emailsOpened)
AllDone == \A i \in Calls : pc[i] \in Terminal
\* The payload has exactly two components and the second is a decimal number
WellFormed(uuid) ==
    LET parts == Split(uuid) IN
    /\ Len(parts) = 2
    /\ parts[2] # <<>>
    /\ \A k \in 1..Len(parts[2]) : IsDigit(parts[2][k])
\* The tokens minted for the posts whose id holds no delimiter
CleanTokens == {TokenFor(id, n) : id \in {MainId, OtherId}, n \in 0..MaxIndex}
\* A valid token: it decodes, names a persisted post and carries a number
Valid(t) ==
    /\ DecodeOk(t)
    /\ FilesGet(PostIdOf(t)) # Absent
    /\ IndexOf(t) # NaN

\* ------------------------------------------------------------------ claims

\* C1: no lost update.  When every invocation has completed, for a persisted
\* post (whose id holds no delimiter) and the invocations that carried tokens
\* minted for pairwise distinct recipient indices of it and whose write was
\* accepted or skipped, the persisted emailsOpened has the bit of every one of
\* those indices set, and the number of set bits is the number of those
\* invocations (no other invocation worked on the post).
NoLostUpdate ==
    AllDone =>
        \A id \in {MainId, OtherId} :
            LET cs == {i \in Calls : \E n \in 0..MaxIndex : token[i] = TokenFor(id, n)} IN
            ( /\ store[id] # Absent
              /\ \A i \in Calls \ cs : ~DecodeOk(token[i]) \/ PostIdOf(token[i]) # id
              /\ \A i, j \in cs : i # j => token[i] # token[j]
              /\ \A i \in cs : /\ pc[i] \in {"persisted", "skipped"}
                               /\ IndexOf(token[i])[1] < store[id].stats.emailsSent )
            => /\ \A i \in cs : IndexOf(token[i])[1] \in StoredBits(id)
               /\ Cardinality(StoredBits(id)) = Cardinality(cs)

\* C2: for one (postId, index), at most one invocation carrying the token
\* minted for it ever issues an overwrite that is pending or was accepted.
AtMostOneWrite ==
    \A i, j \in Calls :
        ( /\ i # j
          /\ pc[i] # "idle" /\ pc[j] # "idle"
          /\ token[i] = token[j]
          /\ token[i] \in MintedTokens )
        => ~(pc[i] \in {"create", "persisted"} /\ pc[j] \in {"create", "persisted"})

\* C3: the load-flip-store cycle is serialized per post: no two invocations
\* that loaded the same post are both between their load and the completion
\* of their store.
SerializedPerPost ==
    \A i, j \in Calls :
        (i # j /\ pc[i] = "create" /\ pc[j] = "create")
            => PostIdOf(token[i]) # PostIdOf(token[j])

\* C4 (as stated): when an invocation with a valid token has run to
\* completion and the next invocation on that post carries the same token,
\* the second one issues no write and leaves the post's record as it is.
SecondCallNoOp(done) ==
    \A j \in Calls \ {1} :
        ( /\ InFlight(j)
          /\ token[j] = token[j - 1]
          /\ Valid(token[j])
          /\ pc[j - 1] \in done )
        => /\ pc'[j] \notin {"create", "persisted", "unsaved"}
           /\ store'[PostIdOf(token[j])] = store[PostIdOf(token[j])]
OpenedAtMostSent ==
    (\A i \in Calls : pc[i] = "idle" \/ token[i] \in CleanTokens) =>
        \A id \in PostIds :
            store[id] # Absent =>
                PopCount(store[id].stats.emailsOpened) <= store[id].stats.emailsSent

\* C6: an invocation whose token fails to decode completes normally, without
\* an error for its caller, and no record is changed by it.
DecodeFailureSilent ==
    [][\A i \in Calls :
          (pc[i] = "idle" /\ pc'[i] # "idle" /\ ~DecodeOk(token'[i]))
              => (pc'[i] \in Terminal \ {"rejected"} /\ store' = store /\ post' = post)]_vars

\* C7: an invocation whose decoded payload is not exactly two components, or
\* whose second component is no non-negative integer, flips no bit and issues
\* no write.
InvalidPayloadIgnored ==
    \A i \in Calls :
        (pc[i] # "idle" /\ DecodeOk(token[i]) /\ ~WellFormed(Decode(token[i])))
            => (~Issued(i) /\ post[i] = Absent)

\* C8: the pair updateStats extracts from the token minted for (postId, index)
\* is that pair; the record it loads has that postId and the bit it sets is
\* that index.
TokenRoundTrip ==
    \A i \in Calls : \A id \in PostIds : \A n \in 0..MaxIndex :
        (pc[i] # "idle" /\ token[i] = TokenFor(id, n))
            => /\ PostIdOf(token[i]) = id
               /\ IndexOf(token[i]) = Num(n)
               /\ pc[i] = "create" =>
                     (post[i].id = id /\ n \in BitSetOf(post[i].stats.emailsOpened))

\* C9: an invocation whose token names a post the store does not hold ends
\* silently at the load: it ends in "absent", which is no error, issues no
\* write, and the store (no record created, no other record changed) and
\* every local post stay as they are.
AbsentPostSilent ==
    [][\A i \in Calls :
          /\ (pc[i] = "get" /\ pc'[i] # "get" /\ FilesGet(PostIdOf(token[i])) = Absent)
                => (pc'[i] = "absent" /\ store' = store /\ post' = post)
          /\ pc[i] = "absent" => pc'[i] = "absent"]_vars
AbsentReached ==
    \E i \in Calls : pc[i] = "absent" /\ FilesGet(PostIdOf(token[i])) = Absent

\* C10: no invocation ends in an error its caller sees, whatever the token
\* and the store, and an overwrite the store rejects leaves the persisted
\* records as they were.
AlwaysCompletes ==
    [][\A i \in Calls :
          /\ pc'[i] # "rejected"
          /\ (pc[i] = "create" /\ pc'[i] = "unsaved") => store' = store]_vars

\* C17: open bits are monotone: a bit that is 1 in a post's persisted
\* emailsOpened is 1 after every step of every invocation of updateStats
\* (the invocations here all carry tokens minted for a post and an index).
BitsMonotone ==
    [][(\A i \in Calls : pc'[i] = "idle" \/ token'[i] \in CleanTokens) =>
          \A id \in PostIds : \A b \in StoredBits(id) :
              store'[id] # Absent /\ b \in BitSetOf(store'[id].stats.emailsOpened)]_vars

\* C18: an invocation moves idle -> get -> create -> persisted at most; it
\* leaves "get" for "create" (the one write it issues) only when the record
\* it loaded had the bit of its index at 0, leaves "get" for "skipped" only
\* when that bit was 1, and nothing follows a terminal state: so a write is
\* issued only after the load and the test of the bit, at most once.
BitReadAs(i, v) ==
    /\ FilesGet(PostIdOf(token[i])) # Absent
    /\ \E mode \in NaNModes :
          BitGet(StoredBits(PostIdOf(token[i])), BitAddr(IndexOf(token[i]), mode)) = v
StateOrder ==
    [][\A i \in Calls :
          pc'[i] # pc[i] =>
              \/ pc[i] = "idle" /\ pc'[i] \in {"get", "rejected"}
              \/ pc[i] = "get" /\ pc'[i] = "absent" /\ store' = store
              \/ pc[i] = "get" /\ pc'[i] = "skipped" /\ BitReadAs(i, 1) /\ store' = store
              \/ pc[i] = "get" /\ pc'[i] = "create" /\ BitReadAs(i, 0) /\ store' = store
              \/ pc[i] = "create" /\ pc'[i] \in {"persisted", "unsaved"}]_vars
StateOrderWitness ==
    \E i, j \in Calls : pc[i] = "persisted" /\ pc[j] = "skipped"

\* C20: a step of an invocation that works on post p changes the persisted
\* record of no other post and creates no record; and when every invocation
\* has completed, a post that exactly one invocation worked on holds the bit
\* of that invocation if its write was accepted and no bit otherwise,
\* however the invocations on the other posts were interleaved with it.
OnPost(i, id) == pc[i] # "idle" /\ DecodeOk(token[i]) /\ PostIdOf(token[i]) = id
CrossPostFinal ==
    AllDone =>
        \A id \in PostIds : \A i \in Calls :
            (OnPost(i, id) /\ \A k \in Calls \ {i} : ~OnPost(k, id) /\ store[id] # Absent)
                => \E mode \in NaNModes :
                     store[id] = [Sent(id, store[id].stats.emailsSent) EXCEPT
                                     !.stats.emailsOpened =
                                         IF pc[i] = "persisted"
                                         THEN BitSetToString(BitSet1({}, BitAddr(IndexOf(token[i]), mode)))
                                         ELSE <<>>]
CrossPostStep ==
    \A i \in Calls :
        (pc[i] = "create" /\ pc'[i] # "create") =>
            \A id \in PostIds :
                /\ id # PostIdOf(token[i]) => store'[id] = store[id]
                /\ store[id] = Absent => store'[id] = Absent
CrossPostIndependent == []CrossPostFinal /\ [][CrossPostStep]_vars
CrossPostWitness ==
    /\ AllDone
    /\ \E i, j \in Calls :
          /\ pc[i] = "persisted" /\ pc[j] = "persisted"
          /\ PostIdOf(token[i]) # PostIdOf(token[j])

\* C14: under weak fairness on each invocation's steps, every invocation that
\* was called and awaits Files.get or Files.create reaches a terminal state,
\* however many other invocations run on the same or on other posts.
Terminates == \A i \in Calls : (pc[i] \in {"get", "create"}) ~> (pc[i] \in Terminal)
TerminatesWitness ==
    \E i, j \in Calls :
        /\ i # j
        /\ pc[i] \in Terminal \ {"rejected"}
        /\ pc[j] \in Terminal \ {"rejected"}
        /\ PostIdOf(token[i]) = PostIdOf(token[j])
\* C15: the excerpt of the Post that make builds is the payload's custom
\* excerpt when there is one, else its excerpt when there is one ("short"
\* when custom_excerpt is null and excerpt is "short"), else the first
\* min(75, length) characters of its plaintext.
ExcerptFallback ==
    mem # NoPost =>
        LET c == payload.custom_excerpt
            e == payload.excerpt
            t == payload.plaintext
        IN  /\ c # Null => mem.excerpt = c
            /\ (c = Null /\ e # Null) => mem.excerpt = e
            /\ (c = Null /\ e = Some(Short)) => mem.excerpt = Some(Short)
            /\ (c = Null /\ e = Null) =>
                  /\ mem.excerpt # Null
                  /\ Len(mem.excerpt[1]) = (IF Len(t) < 75 THEN Len(t) ELSE 75)
                  /\ \A k \in 1..Len(mem.excerpt[1]) : mem.excerpt[1][k] = t[k]
ExcerptWitness ==
    /\ mem # NoPost
    /\ payload.custom_excerpt = Null
    /\ payload.excerpt = Null
    /\ Len(payload.plaintext) > 75
    /\ Len(mem.excerpt[1]) = 75

\* C16: the co-authors string of the Post that make builds is the names,
\* joined with ", " in input order, of exactly the authors whose id differs
\* from the primary author's id; an author with another id and the primary
\* author's name is kept (primary a1, authors [{a1, Alice}, {a2, Alice}]
\* gives "Alice").
NamesakePayload(current) ==
    /\ current.primary_author = [id |-> <<"a", "1">>, name |-> Alice]
    /\ current.authors = <<[id |-> <<"a", "1">>, name |-> Alice],
                           [id |-> <<"a", "2">>, name |-> Alice]>>
CoAuthorsById ==
    mem # NoPost =>
        LET Other(a) == a.id # payload.primary_author.id
            kept == SelectSeq(payload.authors, Other)
        IN  /\ mem.authors = Join([k \in 1..Len(kept) |-> kept[k].name])
            /\ NamesakePayload(payload) => mem.authors = Alice
CoAuthorsWitness == mem # NoPost /\ NamesakePayload(payload)

\* C11: after the first save only recordOpen changes a post's persisted
\* emailsOpened: no step of save() or update() (a step that moves no
\* invocation of updateStats) changes the emailsOpened of a record that is
\* persisted, so update() on a Post built before a recordOpen wrote clears
\* no bit that recordOpen persisted.
OpenedOnlyByRecordOpen ==
    [][(/\ UNCHANGED <<pc, token, post>>
        /\ \A i \in Calls : pc[i] = "idle" \/ token[i] \in CleanTokens) =>
          \A id \in PostIds :
              store[id] # Absent =>
                  /\ store'[id] # Absent
                  /\ store'[id].stats.emailsOpened = store[id].stats.emailsOpened]_vars

\* C12: every persisted record has exactly the fields id, url, date, title,
\* author and stats, whether save(), update() or the overwrite of recordOpen
\* wrote it last; content, excerpt, featureImage, featureImageCaption and
\* the co-authors string are never persisted.
PersistedFields == {"id", "url", "date", "title", "author", "stats"}
FixedProjection ==
    \A id \in PostIds : store[id] # Absent => DOMAIN store[id] = PersistedFields
FixedProjectionWitness ==
    /\ result = Returned("update", TRUE)
    /\ store[MainId] # Absent
    /\ \E i \in Calls : pc[i] = "persisted" /\ PostIdOf(token[i]) = MainId

\* C13: save() on a post whose record is persisted returns false and leaves
\* the store as it was, every emailsOpened bit included; save() returns
\* true only when no record with the id was persisted, and then the
\* projection of the Post is the record.
SaveStep ==
    /\ result' # NoResult
    /\ result'.op = "save"
    /\ UNCHANGED <<pc, token, post, mem>>
FirstSaveOnly ==
    [][SaveStep =>
          /\ store[mem.id] # Absent => (~result'.ok /\ store' = store)
          /\ ~result'.ok => store' = store
          /\ result'.ok =>
                /\ store[mem.id] = Absent
                /\ store' = [store EXCEPT ![mem.id] = SaveableOf(mem)]]_vars
FirstSaveWitness ==
    /\ result = Returned("save", FALSE)
    /\ StoredBits(MainId) # {}

\* C19: the write of recordOpen changes the persisted record of its post in
\* stats.emailsOpened only: id, url, date, title, author and
\* stats.emailsSent are after the write what they were in the record
\* persisted just before it, also when an update() landed between the
\* invocation's load and its store.
RecordOpenFrame ==
    [][\A i \in Calls :
          (pc[i] = "create" /\ pc'[i] = "persisted" /\ store[post[i].id] # Absent) =>
              store'[post[i].id] =
                  [store[post[i].id] EXCEPT
                      !.stats.emailsOpened = store'[post[i].id].stats.emailsOpened]]_vars

====
